---- MODULE Spec2Model ----
(***************************************************************************)
(* aria.utils.String (src/scripts/ciCampaigns.js, second half): a          *)
(* stateless library of string functions.  A string is a sequence of       *)
(* one-character strings; positions are 0-based in every operator that     *)
(* models a JavaScript call, as in the source.  The state machine is a     *)
(* caller: from "idle" it calls one function with arguments drawn from a   *)
(* bounded set, the state then holds the arguments and the returned value, *)
(* and Return goes back to "idle".                                         *)
(***************************************************************************)
EXTENDS Integers, Sequences, FiniteSets

VARIABLES pc, args, result, infos

vars == <<pc, args, result, infos>>

(* ------------------------------ bounds --------------------------------- *)

\* longest string handed to chunk
MaxChunkLen == 7
\* largest element of an array of chunk sizes
MaxChunkSize == 3
\* longest array of chunk sizes
MaxSizes == 3
\* longest generated string handed to the HTML escaping functions
MaxEscLen == 2
\* longest string and longest suffix handed to endsWith
MaxEndsLen == 4
\* longest string handed to camelToDashed and dashedToCamel
MaxCamelLen == 4
\* longest generated template handed to substitute
MaxTemplateLen == 5
\* longest string handed to indexOfNotEscaped
MaxSearchLen == 4
\* longest string handed to pad and crop
MaxCropLen == 4
\* largest size handed to pad and crop
MaxCropSize == 5

(* ------------------------- JavaScript values --------------------------- *)

undefined == [t |-> "undefined"]
null == [t |-> "null"]
Bool(b) == [t |-> "bool", v |-> b]
Num(n) == [t |-> "num", v |-> n]
Str(s) == [t |-> "str", v |-> s]
Arr(a) == [t |-> "arr", v |-> a]
\* an object with the properties text and attr (undefined when absent)
Obj(text, attr) == [t |-> "obj", text |-> text, attr |-> attr]

\* !!value
ToBoolean(value) ==
    CASE value.t = "undefined" -> FALSE
      [] value.t = "null" -> FALSE
      [] value.t = "bool" -> value.v
      [] value.t = "num" -> value.v # 0
      [] value.t = "str" -> value.v # <<>>
      [] OTHER -> TRUE

min(a, b) == IF a < b THEN a ELSE b
max(a, b) == IF a > b THEN a ELSE b

\* every string over chars of length at most n
Strings(chars, n) == UNION {[1..k -> chars] : k \in 0..n}

(* ----------------------- String.prototype methods ---------------------- *)

\* str.substring(a, b): both ends clamped to [0, length], swapped if a > b
substring(str, a, b) ==
    LET ca == max(0, min(a, Len(str)))
        cb == max(0, min(b, Len(str)))
    IN  SubSeq(str, min(ca, cb) + 1, max(ca, cb))

\* str.substring(a): to the end of the string
substringFrom(str, a) == substring(str, a, Len(str))

\* str.substr(start, length)
substr(str, start, length) ==
    LET s0 == IF start < 0 THEN max(0, Len(str) + start) ELSE min(start, Len(str))
        n  == max(0, min(length, Len(str) - s0))
    IN  SubSeq(str, s0 + 1, s0 + n)

\* str.indexOf(searchString, position): position clamped to [0, length]
indexOf(str, searchString, position) ==
    LET from == max(0, min(position, Len(str)))
        hits == {k \in from..(Len(str) - Len(searchString)) :
                    SubSeq(str, k + 1, k + Len(searchString)) = searchString}
    IN  IF hits = {} THEN -1 ELSE CHOOSE k \in hits : \A h \in hits : k <= h

\* str.replace(/c/g, replacement) for a one-character pattern c
RECURSIVE replaceAll(_, _, _)
replaceAll(str, c, replacement) ==
    IF str = <<>> THEN <<>>
    ELSE (IF Head(str) = c THEN replacement ELSE <<Head(str)>>)
         \o replaceAll(Tail(str), c, replacement)

\* str.charAt(i): the empty string outside the string
charAt(str, i) == IF 0 <= i /\ i < Len(str) THEN <<str[i + 1]>> ELSE <<>>

\* str.split('')
split(str) == [i \in 1..Len(str) |-> <<str[i]>>]

\* array.reverse()
reverse(list) == [i \in 1..Len(list) |-> list[Len(list) + 1 - i]]

\* array.join('')
RECURSIVE join(_)
join(list) == IF list = <<>> THEN <<>> ELSE Head(list) \o join(Tail(list))

(* ------------------------------ aria.utils.Type ------------------------ *)

isString(value) == value.t = "str"
isArray(value) == value.t = "arr"
isObject(value) == value.t = "obj"

(* ---------------------- isEscaped, indexOfNotEscaped ------------------- *)

backslash == <<"\\">>

\* the for loop of isEscaped, from position i down to 0
RECURSIVE isEscapedLoop(_, _, _)
isEscapedLoop(str, i, res) ==
    IF i >= 0
    THEN IF charAt(str, i) = backslash
         THEN isEscapedLoop(str, i - 1, ~res)
         ELSE res
    ELSE res

\* only the character just before index looked at
isEscaped_oneBack(str, index) ==
    charAt(str, index - 1) = backslash

isEscaped(str, index) ==
    isEscapedLoop(str, index - 1, FALSE)

\* the while loop of indexOfNotEscaped
RECURSIVE indexOfNotEscapedLoop(_, _, _)
indexOfNotEscapedLoop(str, findChar, index) ==
    IF index # -1
    THEN IF ~isEscaped(str, index)
         THEN index
         ELSE indexOfNotEscapedLoop(str, findChar, indexOf(str, findChar, index + 1))
    ELSE -1

indexOfNotEscaped(str, findChar, start) ==
    indexOfNotEscapedLoop(str, findChar, indexOf(str, findChar, start))

(* ---------------------------- HTML escaping ---------------------------- *)

amp == <<"&", "a", "m", "p", ";">>
lt == <<"&", "l", "t", ";">>
gt == <<"&", "g", "t", ";">>
x27 == <<"&", "#", "x", "2", "7", ";">>
quot == <<"&", "q", "u", "o", "t", ";">>
x2F == <<"&", "#", "x", "2", "F", ";">>

\* the three replacements with & handled last
escapeHTML_ampLast(str) ==
    replaceAll(replaceAll(replaceAll(str, "<", lt), ">", gt), "&", amp)

escapeHTML(str) ==
    replaceAll(replaceAll(replaceAll(str, "&", amp), "<", lt), ">", gt)

escapeHTMLAttr(str) ==
    replaceAll(replaceAll(str, "'", x27), "\"", quot)

\* options as escapeForHTML normalises it: always an object
escapeOptions(options) ==
    LET o1 == IF options.t \in {"undefined", "null"} THEN Bool(TRUE) ELSE options
    IN  IF ~isObject(o1)
        THEN Obj(Bool(ToBoolean(o1)), Bool(ToBoolean(o1)))
        ELSE o1

\* the attribute escaping done before the text escaping
escapeForHTML_attrFirst(str, options, infosArg) ==
    LET o    == escapeOptions(options)
        str1 == IF ToBoolean(o.attr) THEN escapeHTMLAttr(str) ELSE str
        str2 == IF ToBoolean(o.text) THEN replaceAll(escapeHTML(str1), "/", x2F) ELSE str1
    IN  [str |-> str2,
         infos |-> IF infosArg.t \in {"undefined", "null"} THEN infosArg
                   ELSE [t |-> "obj",
                         escaped |-> ToBoolean(o.text) \/ ToBoolean(o.attr),
                         text |-> ToBoolean(o.text), attr |-> ToBoolean(o.attr)]]

\* escapeForHTMLAttr read from options.text
escapeForHTML_attrFromText(str, options, infosArg) ==
    LET o    == escapeOptions(options)
        str1 == IF ToBoolean(o.text) THEN replaceAll(escapeHTML(str), "/", x2F) ELSE str
        str2 == IF ToBoolean(o.text) THEN escapeHTMLAttr(str1) ELSE str1
    IN  [str |-> str2,
         infos |-> IF infosArg.t \in {"undefined", "null"} THEN infosArg
                   ELSE [t |-> "obj",
                         escaped |-> ToBoolean(o.text),
                         text |-> ToBoolean(o.text), attr |-> ToBoolean(o.text)]]

\* returns the returned string and the infos object as the call leaves it
escapeForHTML(str, options, infosArg) ==
    LET o                 == escapeOptions(options)
        escapeForHTMLText == ToBoolean(o.text)
        escapeForHTMLAttr == ToBoolean(o.attr)
        str1 == IF escapeForHTMLText THEN replaceAll(escapeHTML(str), "/", x2F) ELSE str
        str2 == IF escapeForHTMLAttr THEN escapeHTMLAttr(str1) ELSE str1
    IN  [str |-> str2,
         infos |-> IF infosArg.t \in {"undefined", "null"} THEN infosArg
                   ELSE [t |-> "obj",
                         escaped |-> escapeForHTMLText \/ escapeForHTMLAttr,
                         text |-> escapeForHTMLText, attr |-> escapeForHTMLAttr]]

(* ------------------------------- endsWith ------------------------------ *)

\* the search started at the beginning of str
endsWith_fromStart(str, suffix) ==
    indexOf(str, suffix, 0) # -1

endsWith(str, suffix) ==
    indexOf(str, suffix, Len(str) - Len(suffix)) # -1

(* --------------------------------- chunk ------------------------------- *)

RECURSIVE chunkNumberBegin(_, _, _, _)
chunkNumberBegin(string, size, start, res) ==
    IF start < Len(string)
    THEN chunkNumberBegin(string, size, start + size,
                          Append(res, substr(string, start, size)))
    ELSE res

RECURSIVE chunkNumberEnd(_, _, _, _)
chunkNumberEnd(string, size, start, res) ==
    IF start > 0
    THEN chunkNumberEnd(string, size, start - size,
                        Append(res, substring(string, max(0, start - size), start)))
    ELSE res

\* the begin === false branch without the final reverse()
_chunkNumber_noReverse(string, size, begin) ==
    IF size < 1 \/ size >= Len(string) THEN <<string>>
    ELSE IF size = 1 THEN split(string)
    ELSE IF begin = TRUE THEN chunkNumberBegin(string, size, 0, <<>>)
    ELSE chunkNumberEnd(string, size, Len(string), <<>>)

_chunkNumber(string, size, begin) ==
    IF size < 1 \/ size >= Len(string) THEN <<string>>
    ELSE IF size = 1 THEN split(string)
    ELSE IF begin = TRUE THEN chunkNumberBegin(string, size, 0, <<>>)
    ELSE reverse(chunkNumberEnd(string, size, Len(string), <<>>))

\* the loop leaving on start > strLen instead of start >= strLen
RECURSIVE chunkArrayBegin_gt(_, _, _, _, _)
chunkArrayBegin_gt(string, size, i, start, res) ==
    IF i < Len(size)
    THEN LET res2   == Append(res, substr(string, start, size[i + 1]))
             start2 == start + size[i + 1]
         IN  IF start2 > Len(string)
             THEN [start |-> start2, result |-> res2]
             ELSE chunkArrayBegin_gt(string, size, i + 1, start2, res2)
    ELSE [start |-> start, result |-> res]

\* the for loop of the begin === true branch; returns start and result
RECURSIVE chunkArrayBegin(_, _, _, _, _)
chunkArrayBegin(string, size, i, start, res) ==
    IF i < Len(size)
    THEN LET res2   == Append(res, substr(string, start, size[i + 1]))
             start2 == start + size[i + 1]
         IN  IF start2 >= Len(string)
             THEN [start |-> start2, result |-> res2]
             ELSE chunkArrayBegin(string, size, i + 1, start2, res2)
    ELSE [start |-> start, result |-> res]

\* the loop reading the sizes from the last one to the first
RECURSIVE chunkArrayEnd_lastFirst(_, _, _, _, _)
chunkArrayEnd_lastFirst(string, size, i, start, res) ==
    IF i < Len(size)
    THEN LET sz     == size[Len(size) - i]
             res2   == Append(res, substring(string, max(0, start - sz), start))
             start2 == start - sz
         IN  IF start2 <= 0
             THEN [start |-> start2, result |-> res2]
             ELSE chunkArrayEnd_lastFirst(string, size, i + 1, start2, res2)
    ELSE [start |-> start, result |-> res]

\* the for loop of the other branch; returns start and result
RECURSIVE chunkArrayEnd(_, _, _, _, _)
chunkArrayEnd(string, size, i, start, res) ==
    IF i < Len(size)
    THEN LET res2   == Append(res, substring(string, max(0, start - size[i + 1]), start))
             start2 == start - size[i + 1]
         IN  IF start2 <= 0
             THEN [start |-> start2, result |-> res2]
             ELSE chunkArrayEnd(string, size, i + 1, start2, res2)
    ELSE [start |-> start, result |-> res]

\* the array branch forgetting the part of the string left after the sizes
_chunkArray_noRemainder(string, size, begin) ==
    IF begin = TRUE
    THEN chunkArrayBegin(string, size, 0, 0, <<>>).result
    ELSE reverse(chunkArrayEnd(string, size, 0, Len(string), <<>>).result)

_chunkArray(string, size, begin) ==
    IF begin = TRUE
    THEN LET l == chunkArrayBegin(string, size, 0, 0, <<>>)
         IN  IF l.start < Len(string)
             THEN Append(l.result, substringFrom(string, l.start))
             ELSE l.result
    ELSE LET l == chunkArrayEnd(string, size, 0, Len(string), <<>>)
         IN  reverse(IF l.start > 0
                     THEN Append(l.result, substring(string, 0, l.start))
                     ELSE l.result)

chunk(string, size, begin) ==
    IF ~isString(string) THEN null
    ELSE IF string.v = <<>> THEN <<string.v>>
    ELSE IF isArray(size) THEN _chunkArray(string.v, size.v, begin)
    ELSE _chunkNumber(string.v, size.v, begin)

(* ------------------------------ substitute ---------------------------- *)

Digits == <<"0", "1", "2", "3", "4", "5", "6", "7", "8", "9">>

\* [0-9]
isDigit(c) == \E d \in 1..10 : Digits[d] = c

digitValue(c) == (CHOOSE d \in 1..10 : Digits[d] = c) - 1

\* parseInt(digits, 10) for a non-empty string of decimal digits
RECURSIVE parseInt(_)
parseInt(digits) ==
    IF digits = <<>> THEN 0
    ELSE 10 * parseInt(SubSeq(digits, 1, Len(digits) - 1)) + digitValue(digits[Len(digits)])

\* the decimal form of a non-negative integer
RECURSIVE numberToString(_)
numberToString(n) ==
    IF n < 10 THEN <<Digits[n + 1]>>
    ELSE numberToString(n \div 10) \o <<Digits[(n % 10) + 1]>>

\* the string a value returned by a replace callback is turned into
ToString(value) ==
    CASE value.t = "str" -> value.v
      [] value.t = "num" -> numberToString(value.v)
      [] value.t = "bool" -> IF value.v THEN <<"t", "r", "u", "e">> ELSE <<"f", "a", "l", "s", "e">>
      [] value.t = "null" -> <<"n", "u", "l", "l">>
      [] OTHER -> <<"u", "n", "d", "e", "f", "i", "n", "e", "d">>

\* aria.utils.Array.flattenDeep: nested arrays to one list, depth first, in order
RECURSIVE flattenDeep(_)
flattenDeep(array) ==
    IF array = <<>> THEN <<>>
    ELSE (IF isArray(Head(array)) THEN flattenDeep(Head(array).v) ELSE <<Head(array)>>)
         \o flattenDeep(Tail(array))

\* first position at or after i (0-based) that holds no digit
RECURSIVE digitsEnd(_, _)
digitsEnd(string, i) ==
    IF i < Len(string) /\ isDigit(string[i + 1]) THEN digitsEnd(string, i + 1) ELSE i

\* the callback taking params[n] where the source takes params[n - 1]
substituteToken_offByOne(token, params) ==
    LET n           == parseInt(Tail(token))
        replacement == IF n + 1 \in 1..Len(params) THEN params[n + 1] ELSE undefined
    IN  IF replacement.t # "undefined" THEN ToString(replacement) ELSE token

\* the callback of string.replace: the replacement of one token
substituteToken(token, params) ==
    LET n           == parseInt(Tail(token))
        replacement == IF n \in 1..Len(params) THEN params[n] ELSE undefined
    IN  IF replacement.t # "undefined" THEN ToString(replacement) ELSE token

\* string.replace(/%[0-9]+/g, callback) from position i (0-based) on
RECURSIVE replaceTokens(_, _, _)
replaceTokens(string, params, i) ==
    IF i >= Len(string) THEN <<>>
    ELSE IF string[i + 1] = "%" /\ digitsEnd(string, i + 1) > i + 1
         THEN LET j == digitsEnd(string, i + 1)
              IN  substituteToken(SubSeq(string, i + 1, j), params)
                  \o replaceTokens(string, params, j)
         ELSE <<string[i + 1]>> \o replaceTokens(string, params, i + 1)

\* rest: the arguments after string
substitute(string, rest) ==
    replaceTokens(string, flattenDeep(rest), 0)

(* ------------------------- camelToDashed, dashedToCamel ---------------- *)

\* [A-Z]
isUpper(c) == c \in {"A", "B"}
\* [a-z] with the i flag
isLetter(c) == c \in {"a", "b", "A", "B"}

toLowerCase(c) ==
    CASE c = "A" -> "a"
      [] c = "B" -> "b"
      [] OTHER -> c

toUpperCase(c) ==
    CASE c = "a" -> "A"
      [] c = "b" -> "B"
      [] OTHER -> c

\* str.replace(/[A-Z]/g, function (letter) {return "-" + letter.toLowerCase();})
RECURSIVE dashUpper(_)
dashUpper(str) ==
    IF str = <<>> THEN <<>>
    ELSE (IF isUpper(Head(str)) THEN <<"-", toLowerCase(Head(str))>> ELSE <<Head(str)>>)
         \o dashUpper(Tail(str))

camelToDashed(str) ==
    LET dashed == dashUpper(str)
    IN  IF dashed # <<>> /\ Head(dashed) = "-" THEN Tail(dashed) ELSE dashed

\* the callback returning the letter as it is
RECURSIVE dashedToCamel_sameCase(_)
dashedToCamel_sameCase(str) ==
    IF str = <<>> THEN <<>>
    ELSE IF Head(str) = "-" /\ Len(str) >= 2 /\ isLetter(str[2])
         THEN <<str[2]>> \o dashedToCamel_sameCase(SubSeq(str, 3, Len(str)))
         ELSE <<Head(str)>> \o dashedToCamel_sameCase(Tail(str))

RECURSIVE dashedToCamel(_)
dashedToCamel(str) ==
    IF str = <<>> THEN <<>>
    ELSE IF Head(str) = "-" /\ Len(str) >= 2 /\ isLetter(str[2])
         THEN <<toUpperCase(str[2])>> \o dashedToCamel(SubSeq(str, 3, Len(str)))
         ELSE <<Head(str)>> \o dashedToCamel(Tail(str))

(* ------------------------------- pad, crop ----------------------------- *)

\* the for loop of pad followed by padding.join("")
RECURSIVE padding(_, _)
padding(difference, character) ==
    IF difference > 0 THEN character \o padding(difference - 1, character) ELSE <<>>

pad(string, size, character, begin) ==
    \* "" + string
    LET str    == ToString(string)
        length == Len(str)
    IN  IF length < size
        THEN IF begin = TRUE
             THEN padding(size - length, character) \o str
             ELSE str \o padding(size - length, character)
        ELSE str

\* the loop of the begin === true branch of crop: the value of start after it
RECURSIVE cropBegin(_, _, _, _)
cropBegin(string, character, start, length) ==
    IF start < length
    THEN IF charAt(string, start) # character
         THEN start
         ELSE cropBegin(string, character, start + 1, length)
    ELSE start

\* the loop of the other branch of crop: the value of start after it
RECURSIVE cropEnd(_, _, _, _)
cropEnd(string, size, character, start) ==
    IF start >= size
    THEN IF charAt(string, start) # character
         THEN start
         ELSE cropEnd(string, size, character, start - 1)
    ELSE start

\* the loops running on start <= length and start > size
crop_offByOne(string, size, character, begin) ==
    IF begin = TRUE
    THEN substringFrom(string, cropBegin(string, character, 0, Len(string) - size + 1))
    ELSE substring(string, 0, cropEnd(string, size + 1, character, Len(string) - 1) + 1)

crop(string, size, character, begin) ==
    IF begin = TRUE
    THEN substringFrom(string, cropBegin(string, character, 0, Len(string) - size))
    ELSE substring(string, 0, cropEnd(string, size, character, Len(string) - 1) + 1)

(* ------------------------------- inputs -------------------------------- *)

Letters == <<"a", "b", "c", "d", "e", "f", "g", "h", "i">>

ChunkStrings == {SubSeq(Letters, 1, n) : n \in 0..min(MaxChunkLen, Len(Letters))}

ChunkSizes ==
    {Num(n) : n \in -1..(MaxChunkLen + 1)}
    \cup {Arr(a) : a \in UNION {[1..k -> 1..MaxChunkSize] : k \in 0..MaxSizes}}

EscChars == {"&", "<", ">", "/", "'", "\"", "a"}

EscExample == <<"<", "a", ">", "'", "\"">>

EscStrings == Strings(EscChars, MaxEscLen) \cup {EscExample}

OptionScalars ==
    {undefined, null, Bool(TRUE), Bool(FALSE), Num(0), Num(1), Str(<<>>), Str(<<"x">>)}

OptionFields == {undefined, null, Bool(TRUE), Bool(FALSE), Num(0), Str(<<"x">>)}

EscOptions == OptionScalars \cup {Obj(t, a) : t \in OptionFields, a \in OptionFields}

EmptyObject == [t |-> "obj"]

EndsStrings == Strings({"a", "b"}, MaxEndsLen)

SearchStrings == Strings({"\\", "a", "b"}, MaxSearchLen)

CropStrings == Strings({"a", "b"}, MaxCropLen)

CamelStrings == Strings({"a", "b", "A", "B", "-"}, MaxCamelLen)

Templates == Strings({"%", "0", "1", "2", "x"}, MaxTemplateLen)

Hello ==
    <<"H", "e", "l", "l", "o", " ", "%", "1", ",", " ",
      "y", "o", "u", " ", "a", "r", "e", " ", "%", "2">>

HelloValues == <<Str(<<"B", "o", "b">>), Num(30)>>

Twelve == [i \in 1..12 |-> Str(<<Letters[((i - 1) % 9) + 1]>>)]

\* the lists of values handed to substitute after the template
ValueLists ==
    << <<>>,
       <<Str(<<"A">>)>>,
       HelloValues,
       <<Str(<<"%", "2">>), Str(<<>>), Num(0)>>,
       <<undefined, null, Str(<<"A">>)>>,
       <<Arr(<<Str(<<"A">>), Arr(<<Arr(<<>>), Str(<<"%", "1">>)>>)>>), Str(<<"C">>)>>,
       <<Arr(SubSeq(Twelve, 1, 4)), Arr(<<Twelve[5], Arr(SubSeq(Twelve, 6, 11))>>), Twelve[12]>> >>

(* ------------------------------- actions ------------------------------- *)

NoArgs == <<>>

Init ==
    /\ pc = "idle"
    /\ args = NoArgs
    /\ result = NoArgs
    /\ infos = undefined

Chunk ==
    /\ pc = "idle"
    /\ \E string \in {Str(s) : s \in ChunkStrings} \cup {Num(5)},
          size \in ChunkSizes, begin \in BOOLEAN :
          /\ args' = [string |-> string, size |-> size, begin |-> begin]
          /\ result' = chunk(string, size, begin)
    /\ pc' = "chunk"
    /\ UNCHANGED infos

EscapeHTML ==
    /\ pc = "idle"
    /\ \E str \in EscStrings :
          /\ args' = [str |-> str]
          /\ result' = escapeHTML(str)
    /\ pc' = "escapeHTML"
    /\ UNCHANGED infos

EscapeHTMLAttr ==
    /\ pc = "idle"
    /\ \E str \in EscStrings :
          /\ args' = [str |-> str]
          /\ result' = escapeHTMLAttr(str)
    /\ pc' = "escapeHTMLAttr"
    /\ UNCHANGED infos

EscapeForHTML ==
    /\ pc = "idle"
    /\ \E str \in EscStrings, options \in EscOptions, infosArg \in {undefined, EmptyObject} :
          LET r == escapeForHTML(str, options, infosArg)
          IN  /\ args' = [str |-> str, options |-> options, infos |-> infosArg]
              /\ result' = r.str
              /\ infos' = r.infos
    /\ pc' = "escapeForHTML"

EndsWith ==
    /\ pc = "idle"
    /\ \E str \in EndsStrings, suffix \in EndsStrings :
          /\ args' = [str |-> str, suffix |-> suffix]
          /\ result' = endsWith(str, suffix)
    /\ pc' = "endsWith"
    /\ UNCHANGED infos

Substitute ==
    /\ pc = "idle"
    /\ \E string \in Templates \cup {Hello}, v \in 1..Len(ValueLists) :
          /\ args' = [string |-> string, params |-> ValueLists[v]]
          /\ result' = substitute(string, ValueLists[v])
    /\ pc' = "substitute"
    /\ UNCHANGED infos

IndexOfNotEscaped ==
    /\ pc = "idle"
    /\ \E str \in SearchStrings, c \in {"a", "\\"}, start \in 0..(MaxSearchLen + 1) :
          /\ args' = [str |-> str, findChar |-> <<c>>, start |-> start]
          /\ result' = indexOfNotEscaped(str, <<c>>, start)
    /\ pc' = "indexOfNotEscaped"
    /\ UNCHANGED infos

Pad ==
    /\ pc = "idle"
    /\ \E string \in {Str(t) : t \in CropStrings} \cup {Num(7)},
          size \in 0..MaxCropSize, c \in {"a", "b"}, begin \in BOOLEAN :
          /\ args' = [string |-> string, size |-> size, character |-> <<c>>, begin |-> begin]
          /\ result' = pad(string, size, <<c>>, begin)
    /\ pc' = "pad"
    /\ UNCHANGED infos

Crop ==
    /\ pc = "idle"
    /\ \E string \in CropStrings, size \in 0..MaxCropSize, c \in {"a", "b"},
          begin \in BOOLEAN :
          /\ args' = [string |-> string, size |-> size, character |-> <<c>>, begin |-> begin]
          /\ result' = crop(string, size, <<c>>, begin)
    /\ pc' = "crop"
    /\ UNCHANGED infos

\* crop(pad(s, n, c, b), s.length, c, b): the result of pad handed on with
\* the same character and begin; args.padded keeps s
CropOfPadded ==
    /\ pc = "pad"
    /\ isString(args.string)
    /\ args' = [string |-> result, size |-> Len(args.string.v),
                character |-> args.character, begin |-> args.begin,
                padded |-> args.string.v]
    /\ result' = crop(result, Len(args.string.v), args.character, args.begin)
    /\ pc' = "crop"
    /\ UNCHANGED infos

CamelToDashed ==
    /\ pc = "idle"
    /\ \E str \in CamelStrings :
          /\ args' = [str |-> str]
          /\ result' = camelToDashed(str)
    /\ pc' = "camelToDashed"
    /\ UNCHANGED infos

DashedToCamel ==
    /\ pc = "idle"
    /\ \E str \in CamelStrings :
          /\ args' = [str |-> str]
          /\ result' = dashedToCamel(str)
    /\ pc' = "dashedToCamel"
    /\ UNCHANGED infos

\* dashedToCamel(camelToDashed(s)): the result of camelToDashed handed on;
\* args.camel keeps s
DashedToCamelOfResult ==
    /\ pc = "camelToDashed"
    /\ args' = [str |-> result, camel |-> args.str]
    /\ result' = dashedToCamel(result)
    /\ pc' = "dashedToCamel"
    /\ UNCHANGED infos

Return ==
    /\ pc # "idle"
    /\ pc' = "idle"
    /\ args' = NoArgs
    /\ result' = NoArgs
    /\ infos' = undefined

Next ==
    \/ Chunk
    \/ EscapeHTML
    \/ EscapeHTMLAttr
    \/ EscapeForHTML
    \/ EndsWith
    \/ Substitute
    \/ IndexOfNotEscaped
    \/ Pad
    \/ Crop
    \/ CropOfPadded
    \/ CamelToDashed
    \/ DashedToCamel
    \/ DashedToCamelOfResult
    \/ Return

Spec == Init /\ [][Next]_vars

(* ------------------------------ chunk: claims -------------------------- *)

abcdefg == <<"a", "b", "c", "d", "e", "f", "g">>

\* sizes[1] + ... + sizes[i]
RECURSIVE PrefixSum(_, _)
PrefixSum(sizes, i) == IF i = 0 THEN 0 ELSE sizes[i] + PrefixSum(sizes, i - 1)

ChunkOfString == pc = "chunk" /\ isString(args.string)

\* C1: for every string, every size (an integer, also below 1 or at least
\* the length, or an array of positive integers, also empty) and both values
\* of begin, the chunks of chunk(s, size, begin) concatenated in order are s.
C1_ChunkJoin ==
    ChunkOfString => join(result) = args.string.v

C1_Witness ==
    /\ ChunkOfString
    /\ args.string.v = abcdefg
    /\ args.size = Arr(<<1, 2>>)
    /\ args.begin = FALSE
    /\ Len(result) = 3
    /\ join(result) = abcdefg

ChunkArrayBegin ==
    /\ ChunkOfString
    /\ args.string.v # <<>>
    /\ isArray(args.size)
    /\ args.begin = TRUE

ChunkNumber ==
    /\ ChunkOfString
    /\ ~isArray(args.size)

ChunkArrayFirstSize ==
    /\ ChunkOfString
    /\ isArray(args.size)
    /\ args.size.v # <<>>
    /\ args.string.v # <<>>
    /\ Len(args.string.v) >= args.size.v[1]

ContextActive(options, context) ==
    IF options.t \in {"undefined", "null"} THEN TRUE
    ELSE IF options.t # "obj" THEN ToBoolean(options)
    ELSE ToBoolean(IF context = "text" THEN options.text ELSE options.attr)

TextEscaped(s) == replaceAll(escapeHTML(s), "/", x2F)

\* C5: escapeForHTML(s, options) = A(T(s)): T is escapeHTML then / to &#x2F;
\* when the text context is active, A is escapeHTMLAttr when the attr context
\* is active, text first; both contexts active for undefined and null, both
\* the boolean coercion of a non-object, else the truthiness of each field.
C5_EscapeForHTML ==
    pc = "escapeForHTML" =>
        LET t == IF ContextActive(args.options, "text") THEN TextEscaped(args.str) ELSE args.str
        IN  result = IF ContextActive(args.options, "attr") THEN escapeHTMLAttr(t) ELSE t

C5_Witness ==
    /\ pc = "escapeForHTML"
    /\ args.str = <<"'", "&">>
    /\ args.options = Num(1)
    /\ result = x27 \o amp

EscapeChar(c) ==
    CASE c = "&" -> amp
      [] c = "<" -> lt
      [] c = ">" -> gt
      [] OTHER -> <<c>>

StartsAt(str, i, entity) ==
    /\ i + Len(entity) - 1 <= Len(str)
    /\ SubSeq(str, i, i + Len(entity) - 1) = entity

\* C6: escapeHTML(s) is the concatenation, character by character, of
\* & to &amp;, < to &lt;, > to &gt;, any other character to itself; so the
\* output has no < and no >, and every & in it starts one of the entities.
C6_EscapeHTML ==
    pc = "escapeHTML" =>
        /\ result = join([i \in 1..Len(args.str) |-> EscapeChar(args.str[i])])
        /\ \A i \in 1..Len(result) :
               /\ result[i] \notin {"<", ">"}
               /\ result[i] = "&" =>
                      \/ StartsAt(result, i, amp)
                      \/ StartsAt(result, i, lt)
                      \/ StartsAt(result, i, gt)

C6_Witness ==
    /\ pc = "escapeHTML"
    /\ args.str = <<"<", "&">>
    /\ result = lt \o amp

\* C10 as stated: escapeForHTML("<a>'\"", {text: true, attr: false}) is
\* &lt;a&gt;&#x2F;'" .
C10_ExampleWithSlash ==
    (pc = "escapeForHTML" /\ args.str = EscExample
        /\ args.options = Obj(Bool(TRUE), Bool(FALSE))) =>
        result = lt \o <<"a">> \o gt \o x2F \o <<"'", "\"">>

\* C10, amended: escapeForHTML("<a>'\"", {text: true, attr: false}) is
\* &lt;a&gt;'" : the quotes are left alone and, the input having no /, no
\* &#x2F; appears.
C10_Example ==
    (pc = "escapeForHTML" /\ args.str = EscExample
        /\ args.options = Obj(Bool(TRUE), Bool(FALSE))) =>
        result = lt \o <<"a">> \o gt \o <<"'", "\"">>

C10_Witness ==
    /\ pc = "escapeForHTML"
    /\ args.str = EscExample
    /\ args.options = Obj(Bool(TRUE), Bool(FALSE))
    /\ result = <<"&", "l", "t", ";", "a", "&", "g", "t", ";", "'", "\"">>

(* ----------------------------- endsWith: claims ------------------------ *)

\* C8: endsWith(text, suffix) is true exactly when the last length(suffix)
\* characters of text are suffix: false for a suffix longer than text, true
\* for the empty suffix and for text = s + suffix, and not true because
\* suffix occurs somewhere else in text.
C8_EndsWith ==
    pc = "endsWith" =>
        LET str    == args.str
            suffix == args.suffix
        IN  /\ result <=> /\ Len(suffix) <= Len(str)
                          /\ SubSeq(str, Len(str) - Len(suffix) + 1, Len(str)) = suffix
            /\ Len(suffix) > Len(str) => ~result
            /\ suffix = <<>> => result
            /\ (\E s \in EndsStrings : str = s \o suffix) => result

C8_Witness ==
    /\ pc = "endsWith"
    /\ args.str = <<"a", "b", "a">>
    /\ args.suffix = <<"a", "b">>
    /\ result = FALSE

(* ------------------------------ camel: claims -------------------------- *)

RoundTrip == pc = "dashedToCamel" /\ "camel" \in DOMAIN args

OnlyLetters(s) == \A i \in 1..Len(s) : isLetter(s[i])
NoTwoUpper(s) == \A i \in 1..(Len(s) - 1) : ~(isUpper(s[i]) /\ isUpper(s[i + 1]))
NoHyphen(s) == \A i \in 1..Len(s) : s[i] # "-"

\* C7 as stated: for every string of letters without two consecutive
\* uppercase letters and without a hyphen, dashedToCamel(camelToDashed(s)) = s.
C7_RoundTripAnyStart ==
    (RoundTrip /\ OnlyLetters(args.camel) /\ NoTwoUpper(args.camel)
        /\ NoHyphen(args.camel)) =>
        result = args.camel

\* C7, amended: the same for the strings that, in addition, do not begin
\* with an uppercase letter.
C7_RoundTrip ==
    (RoundTrip /\ OnlyLetters(args.camel) /\ NoTwoUpper(args.camel)
        /\ NoHyphen(args.camel)
        /\ ~(args.camel # <<>> /\ isUpper(args.camel[1]))) =>
        result = args.camel

C7_Witness ==
    /\ RoundTrip
    /\ args.camel = <<"a", "B", "a", "A">>
    /\ args.str = <<"a", "-", "b", "a", "-", "a">>
    /\ result = <<"a", "B", "a", "A">>

(* ---------------------------- substitute: claims ----------------------- *)

\* the values in depth-first order, by the number of leaves instead of by
\* concatenation
RECURSIVE LeafCount(_)
LeafCount(value) ==
    IF value.t # "arr" THEN 1
    ELSE IF value.v = <<>> THEN 0
    ELSE LeafCount(Head(value.v)) + LeafCount(Arr(Tail(value.v)))

\* the n-th leaf (1-based) of an array value holding at least n leaves
RECURSIVE Leaf(_, _)
Leaf(value, n) ==
    IF value.t # "arr" THEN value
    ELSE IF n <= LeafCount(Head(value.v)) THEN Leaf(Head(value.v), n)
    ELSE Leaf(Arr(Tail(value.v)), n - LeafCount(Head(value.v)))

\* position i (1-based) starts a token: a % followed by a digit
TokenStart(s, i) == s[i] = "%" /\ i < Len(s) /\ isDigit(s[i + 1])

\* position i (1-based) holds a digit of a token: digits only back to a %
InToken(s, i) ==
    \E k \in 1..(i - 1) :
        /\ s[k] = "%"
        /\ \A m \in (k + 1)..i : isDigit(s[m])

\* last position of the token starting at i
TokenEnd(s, i) ==
    CHOOSE j \in (i + 1)..Len(s) :
        /\ \A m \in (i + 1)..j : isDigit(s[m])
        /\ (j = Len(s) \/ ~isDigit(s[j + 1]))

\* what position i of the template contributes to the output
Piece(s, values, i) ==
    IF TokenStart(s, i)
    THEN LET n == parseInt(SubSeq(s, i + 1, TokenEnd(s, i)))
         IN  IF n >= 1 /\ n <= LeafCount(Arr(values))
                /\ Leaf(Arr(values), n) # undefined
             THEN ToString(Leaf(Arr(values), n))
             ELSE SubSeq(s, i, TokenEnd(s, i))
    ELSE IF InToken(s, i) THEN <<>>
    ELSE <<s[i]>>

\* C9: every token % + longest run of digits, denoting n, becomes the n-th
\* value (1-based) of the depth-first flattening of the values when there is
\* one (undefined is none) and stays as it is otherwise (n = 0, n beyond the
\* values); the rest of the template is unchanged and substituted values are
\* not read again;
\* substitute("Hello %1, you are %2", "Bob", 30) = "Hello Bob, you are 30".
C9_Substitute ==
    pc = "substitute" =>
        /\ result = join([i \in 1..Len(args.string) |->
                             Piece(args.string, args.params, i)])
        /\ (args.string = Hello /\ args.params = HelloValues) =>
               result = <<"H", "e", "l", "l", "o", " ", "B", "o", "b", ",", " ",
                          "y", "o", "u", " ", "a", "r", "e", " ", "3", "0">>

C9_Witness ==
    /\ pc = "substitute"
    /\ args.string = <<"%", "2", "%", "0", "1">>
    /\ args.params = ValueLists[6]
    /\ result = <<"%", "1", "A">>

(* ------------------------ indexOfNotEscaped: claims -------------------- *)

\* number of consecutive backslashes just before position i (0-based)
BackslashRun(text, i) ==
    CHOOSE k \in 0..i :
        /\ \A j \in (i - k + 1)..i : text[j] = "\\"
        /\ (k = i \/ text[i - k] # "\\")

\* positions (0-based) at or after start holding c after an even run
NotEscapedAt(text, c, start) ==
    {i \in start..(Len(text) - 1) :
        text[i + 1] = c /\ BackslashRun(text, i) % 2 = 0}

\* C11: indexOfNotEscaped(text, c, start) is the least index i >= start with
\* text[i] = c and an even run of backslashes just before i, the run counted
\* back to the start of the string also across start; it is -1 exactly when
\* there is no such index; isEscaped(text, i) is the oddness of that run.
C11_IndexOfNotEscaped ==
    pc = "indexOfNotEscaped" =>
        LET good == NotEscapedAt(args.str, args.findChar[1], args.start)
        IN  /\ (good = {}) <=> (result = -1)
            /\ good # {} => (result \in good /\ \A i \in good : result <= i)
            /\ \A i \in 0..Len(args.str) :
                   isEscaped(args.str, i) <=> (BackslashRun(args.str, i) % 2 = 1)

C11_Witness ==
    /\ pc = "indexOfNotEscaped"
    /\ args.str = <<"\\", "a", "\\", "a">>
    /\ args.findChar = <<"a">>
    /\ args.start = 1
    /\ result = -1

(* ------------------------------- crop: claims -------------------------- *)

\* the least length k >= min(size, length(text)) such that everything after
\* the first k characters of text is c
KeptAtEnd(text, size, c) ==
    CHOOSE k \in min(size, Len(text))..Len(text) :
        /\ \A j \in (k + 1)..Len(text) : text[j] = c
        /\ (k = min(size, Len(text)) \/ text[k] # c)

\* the same from the other end: the number of characters kept
KeptAtBeginning(text, size, c) ==
    CHOOSE k \in min(size, Len(text))..Len(text) :
        /\ \A j \in 1..(Len(text) - k) : text[j] = c
        /\ (k = min(size, Len(text)) \/ text[Len(text) - k + 1] # c)

\* C12: crop(text, size, c, atBeginning) removes only occurrences of c, from
\* the trailing end (atBeginning not true) or the leading end (true), up to
\* the first other character, and never below min(size, length(text))
\* characters: it is text less the longest run of c at that end that leaves
\* at least size characters; hence crop(pad(s, n, c, b), length(s), c, b) = s.
C12_Crop ==
    pc = "crop" =>
        LET text == args.string
            c    == args.character[1]
        IN  /\ Len(result) >= min(args.size, Len(text))
            /\ IF args.begin = TRUE
               THEN result = SubSeq(text, Len(text) - KeptAtBeginning(text, args.size, c) + 1,
                                    Len(text))
               ELSE result = SubSeq(text, 1, KeptAtEnd(text, args.size, c))
            /\ "padded" \in DOMAIN args => result = args.padded

C12_Witness ==
    /\ pc = "crop"
    /\ "padded" \in DOMAIN args
    /\ args.padded = <<"b", "a">>
    /\ args.string = <<"b", "a", "a", "a">>
    /\ args.character = <<"a">>
    /\ args.begin = FALSE
    /\ result = <<"b", "a">>

====
